---- MODULE Spec2Model ----
(***************************************************************************)
(* Generic CRUD scaffolding: BaseModel (query engine), BaseRouter          *)
(* (endpoint generator), handle_exceptions (exception translator) and      *)
(* get_db (storage session provider).                                      *)
(*                                                                         *)
(* Four specifications share the store:                                     *)
(*   Spec      - the request life cycle: session acquisition, capability   *)
(*               check, the endpoint function wrapped by                   *)
(*               handle_exceptions, session release.  Requests of several  *)
(*               worker processes interleave at the granularity of one     *)
(*               BaseModel call.                                           *)
(*   SpecQuery - the query engine applied to stores built by create, with  *)
(*               the full set of query parameters.                         *)
(*   SpecList  - list-all, as BaseModel.get_all and as the GET /all        *)
(*               endpoint, on stores built by create.                      *)
(*   SpecStore - BaseModel.create, update, delete and get_by_id called     *)
(*               one after the other while the database clock moves.       *)
(***************************************************************************)
EXTENDS Integers, Sequences, FiniteSets, TLC

\* ---------------------------------------------------------------- bounds
MaxSlots == 2      \* requests in flight at once
MaxRequests == 3   \* requests (and sessions) ever started
MaxId == 2         \* identifiers ever generated
MaxClock == 1      \* readings of the database clock
MaxPage == 2       \* page numbers a request can name
MaxLimit == 2      \* page sizes a request can name

VARIABLES store, now, nextId, deleted,
          rq, sessions, nextSess, nextReq,
          query, out, last, committed

vars == <<store, now, nextId, deleted, rq, sessions, nextSess, nextReq, query, out, last, committed>>

\* Optional values (Python None / a value)
None == <<>>
Some(x) == <<x>>

Min(a, b) == IF a < b THEN a ELSE b

\* ------------------------------------------------- exceptions and raising
\* Exception classes that occur; all derive from Exception.  ErrorResponse
\* and NotFoundErrorResponse are pydantic models and are not among them.
ExceptionClasses == {"HTTPException", "SQLAlchemyError", "ValueError",
                     "TypeError", "AttributeError", "Exception"}

InheritsBaseException(c) == c \in ExceptionClasses

\* isinstance(e, c) for the classes above (no two of them are related
\* except through Exception).
IsInstance(e, c) == \/ e.cls = c
                    \/ c = "Exception" /\ e.cls \in ExceptionClasses

Obj(c, st, det, msg, xe) ==
    [cls |-> c, status_code |-> st, detail |-> det, message |-> msg, x_error |-> xe]

HTTPException(st, det, xe) == Obj("HTTPException", st, det, "", xe)
NotFoundErrorResponse(msg) == Obj("NotFoundErrorResponse", 0, "", msg, "")
ErrorResponse(msg) == Obj("ErrorResponse", 0, "", msg, "")

\* str(e)
Str(e) == IF e.cls = "HTTPException" THEN e.detail ELSE e.message

\* What a function did: returned a value or raised an exception.
Returned(v) == [kind |-> "return", exc |-> None, value |-> Some(v)]
Raised(e) == [kind |-> "raise", exc |-> Some(e), value |-> None]

\* The raise statement: an object whose class does not derive from
\* BaseException cannot be raised; the statement raises TypeError instead.
Raise(obj) ==
    IF InheritsBaseException(obj.cls)
    THEN Raised(obj)
    ELSE Raised(Obj("TypeError", 0, "", "exceptions must derive from BaseException", ""))

\* HTTP status constants
HTTP_404_NOT_FOUND == 404
HTTP_400_BAD_REQUEST == 400
HTTP_500_INTERNAL_SERVER_ERROR == 500
DatabaseErrorStatus == 420

\* The except clauses of handle_exceptions.wrapper, in source order.
ExceptClausesHttpLast ==
    << "SQLAlchemyError", "NotFoundErrorResponse", "ErrorResponse",
       "ValueError", "Exception", "HTTPException" >>
ExceptClauses ==
    << "HTTPException", "SQLAlchemyError", "NotFoundErrorResponse",
       "ErrorResponse", "ValueError", "Exception" >>

\* The body of the except clause for class c, given the caught exception e.
ExceptBodyAll500(c, e) ==
    CASE c = "HTTPException" -> Raised(e)
      [] c = "ValueError" ->
            Raised(HTTPException(HTTP_400_BAD_REQUEST,
                                 "Bad request error occurred: " \o Str(e), "Bad Request"))
      [] OTHER ->
            Raised(HTTPException(HTTP_500_INTERNAL_SERVER_ERROR,
                                 "Internal server error occurred: " \o Str(e),
                                 "Internal Server Error"))
ExceptBody(c, e) ==
    CASE c = "HTTPException" -> Raised(e)
      [] c = "SQLAlchemyError" ->
            Raised(HTTPException(DatabaseErrorStatus,
                                 "Database connection error occurred: " \o Str(e),
                                 "Database Error"))
      [] c = "NotFoundErrorResponse" ->
            Raised(HTTPException(HTTP_404_NOT_FOUND,
                                 "Resource not found: " \o e.message,
                                 "Resource Not Found"))
      [] c = "ErrorResponse" ->
            Raised(HTTPException(HTTP_500_INTERNAL_SERVER_ERROR,
                                 "Internal server error occurred: " \o e.message,
                                 "Bad Request"))
      [] c = "ValueError" ->
            Raised(HTTPException(HTTP_400_BAD_REQUEST,
                                 "Bad request error occurred: " \o Str(e), "Bad Request"))
      [] OTHER ->
            Raised(HTTPException(HTTP_500_INTERNAL_SERVER_ERROR,
                                 "Internal server error occurred: " \o Str(e),
                                 "Internal Server Error"))

\* Matching a raised exception against the clauses from clause i on.  A
\* clause is evaluated only when the clauses before it did not match; a clause
\* naming a class that does not derive from BaseException raises TypeError
\* at that point, and that TypeError leaves the wrapper.
RECURSIVE MatchExcept(_, _)
MatchExcept(e, i) ==
    IF i > Len(ExceptClauses) THEN Raised(e)
    ELSE LET c == ExceptClauses[i] IN
         IF ~InheritsBaseException(c)
         THEN Raised(Obj("TypeError", 0, "",
                "catching classes that do not inherit from BaseException is not allowed", ""))
         ELSE IF IsInstance(e, c) THEN ExceptBody(c, e)
         ELSE MatchExcept(e, i + 1)

\* handle_exceptions.wrapper applied to what the wrapped function did.
handle_exceptions(done) ==
    IF done.kind = "return" THEN done ELSE MatchExcept(done.exc[1], 1)

\* ------------------------------------------------------- entity records
ModelName == "ExampleModel"

\* Request bodies (ExampleBase): name, value, description.  Strings that are
\* searched are sequences of characters.
Bodies == { [name |-> <<"E", "x">>, value |-> 1, description |-> <<"d">>],
            [name |-> <<"a", "b">>, value |-> 3, description |-> <<"d">>] }

\* str.lower on the characters that occur
Lower(c) == CASE c = "E" -> "e"
              [] c = "X" -> "x"
              [] c = "A" -> "a"
              [] c = "B" -> "b"
              [] c = "D" -> "d"
              [] OTHER -> c

\* column ILIKE pattern: % matches any run of characters, _ any one
\* character, every other character itself without regard to case.
RECURSIVE ILike(_, _)
ILike(s, pat) ==
    IF pat = <<>> THEN s = <<>>
    ELSE IF Head(pat) = "%"
         THEN ILike(s, Tail(pat)) \/ (s # <<>> /\ ILike(Tail(s), pat))
         ELSE /\ s # <<>>
              /\ (Head(pat) = "_" \/ Lower(Head(s)) = Lower(Head(pat)))
              /\ ILike(Tail(s), Tail(pat))

\* to_dict of a stored row
Row(id, created, updated, body) ==
    [id |-> id, created_at |-> created, updated_at |-> updated,
     name |-> body.name, value |-> body.value, description |-> body.description]

\* getattr(cls, field) for the text columns / the orderable columns
TextColumn(rec, field) == IF field = "name" THEN rec.name ELSE rec.description
SortColumn(rec, field) ==
    CASE field = "created_at" -> rec.created_at
      [] field = "updated_at" -> rec.updated_at
      [] field = "value" -> rec.value
      [] OTHER -> rec.id

\* Python truthiness of an optional int, an optional string (a sequence of
\* characters) and an optional column name
TruthyInt(o) == o # None /\ o[1] # 0
TruthyStr(o) == o # None /\ o[1] # <<>>
TruthyName(o) == o # None /\ o[1] # ""

\* The filter chain that get_all, get_paginated and get_pagination_metadata
\* each build on db.query(cls).
Matches(rec, p) ==
    /\ (p.min_date # None => rec.created_at >= p.min_date[1])
    /\ (p.max_date # None => rec.created_at <= p.max_date[1])
    /\ (TruthyInt(p.min_value) => rec.value >= p.min_value[1])
    /\ (TruthyInt(p.max_value) => rec.value <= p.max_value[1])
    /\ (TruthyName(p.search_field) /\ TruthyStr(p.search) =>
            ILike(TextColumn(rec, p.search_field[1]), <<"%">> \o p.search[1] \o <<"%">>))

Filtered(S, p) == {rec \in S : Matches(rec, p)}

\* The orders in which the database may return the rows of S: without
\* ORDER BY any order, with ORDER BY any order that respects the key.
Orderings(S) ==
    {seq \in [1..Cardinality(S) -> S] :
        \A i, j \in 1..Cardinality(S) : i # j => seq[i] # seq[j]}

OrderedAscendingOnly(seq, sort_by, order) ==
    \A i \in 1..(Len(seq) - 1) :
        SortColumn(seq[i], sort_by) <= SortColumn(seq[i + 1], sort_by)
Ordered(seq, sort_by, order) ==
    \A i \in 1..(Len(seq) - 1) :
        IF order = "desc"
        THEN SortColumn(seq[i], sort_by) >= SortColumn(seq[i + 1], sort_by)
        ELSE SortColumn(seq[i], sort_by) <= SortColumn(seq[i + 1], sort_by)

\* LIMIT lim OFFSET off
LimitOffset(seq, lim, off) ==
    IF off >= Len(seq) THEN <<>> ELSE SubSeq(seq, off + 1, Min(off + lim, Len(seq)))

\* BaseModel.get_all: the possible result lists
get_all(S, p) ==
    {seq \in Orderings(Filtered(S, p)) : Ordered(seq, p.sort_by, p.order)}

\* BaseModel.get_paginated: the filtered, ordered query is built and dropped;
\* the rows come from a fresh db.query(cls) with LIMIT and OFFSET only.
get_paginated(S, p) ==
    {LimitOffset(seq, p.limit, (p.page - 1) * p.limit) : seq \in Orderings(S)}

\* BaseModel.get_pagination_metadata
get_pagination_metadata(S, p) ==
    LET total_count == Cardinality(Filtered(S, p)) IN
    [total_count |-> total_count,
     total_pages |-> (total_count + p.limit - 1) \div p.limit,
     current_page |-> p.page,
     page_size |-> p.limit]

\* BaseModel.get_by_id
get_by_idAnyRow(S, id) ==
    IF S # {} THEN Some(CHOOSE rec \in S : TRUE) ELSE None
get_by_id(S, id) ==
    IF \E rec \in S : rec.id = id
    THEN Some(CHOOSE rec \in S : rec.id = id)
    ELSE None

\* BaseModel.create: the row an INSERT of body stores (id from generate_uuid,
\* created_at and updated_at from func.now())
createSameId(id, t, body) == Row(1, t, t, body)
create(id, t, body) == Row(id, t, t, body)

\* The flush of BaseModel.update's commit: the instance was loaded as
\* `loaded`, setattr gave it every field of body, and the UPDATE sets the
\* attributes whose value differs from the loaded one, on the row as it is
\* now (cur).  updated_at takes func.now() when an UPDATE is issued; when no
\* attribute changed none is issued.
Flush(cur, loaded, t, body) ==
    IF loaded.name = body.name /\ loaded.value = body.value
          /\ loaded.description = body.description
    THEN cur
    ELSE [cur EXCEPT !.name = IF loaded.name # body.name THEN body.name ELSE @,
                     !.value = IF loaded.value # body.value THEN body.value ELSE @,
                     !.description = IF loaded.description # body.description
                                     THEN body.description ELSE @,
                     !.updated_at = t]

\* BaseModel.update when nothing happens between its SELECT and its commit:
\* the row after setattr of every field and commit.
update(rec, t, body) == Flush(rec, rec, t, body)

\* BaseModel.delete: the store afterwards and the value returned
deleteKeepsRow(S, id) == [store |-> S, ret |-> get_by_id(S, id) # None]
delete(S, id) ==
    LET instance == get_by_id(S, id) IN
    IF instance = None THEN [store |-> S, ret |-> FALSE]
    ELSE [store |-> S \ {instance[1]}, ret |-> TRUE]

\* Default query parameters of get_all_records / get_paginated_records
PAGE_SIZE == 2
Params(page, limit, sort_by, order, min_date, max_date, min_value, max_value, sf, s) ==
    [page |-> page, limit |-> limit, sort_by |-> sort_by, order |-> order,
     min_date |-> min_date, max_date |-> max_date,
     min_value |-> min_value, max_value |-> max_value,
     search_field |-> sf, search |-> s]
DefaultParams == Params(1, PAGE_SIZE, "created_at", "asc", None, None, None, None, None, None)

\* ------------------------------------------------------------ responses
Response(schema, message, data, page, total_pages, total_records, page_size) ==
    [schema |-> schema, message |-> message, data |-> data, page |-> page,
     total_pages |-> total_pages, total_records |-> total_records,
     page_size |-> page_size]
APIBaseResponse(message, data) == Response("APIBaseResponse", message, data, 0, 0, 0, 0)
APIBaseListResponse(message, data) == Response("APIBaseListResponse", message, data, 0, 0, 0, 0)
APIBasePaginatedResponse(message, data, page, total_pages, total_records, page_size) ==
    Response("APIBasePaginatedResponse", message, data, page, total_pages,
             total_records, page_size)

\* BaseRouter.get_all_records given the list model.get_all returned
get_all_records(records) ==
    Returned(APIBaseListResponse("All " \o ModelName \o " records", records))

\* BaseRouter.get_paginated_records given the page and the metadata
get_paginated_records(records, md, p) ==
    Returned(APIBasePaginatedResponse("All " \o ModelName \o " records", records,
                                      p.page, md.total_pages, md.total_count, p.limit))

\* BaseRouter.get_record_by_id given what model.get_by_id returned
get_record_by_id(record) ==
    IF record = None
    THEN Raise(NotFoundErrorResponse("No " \o ModelName \o " Found With Given Id"))
    ELSE Returned(APIBaseResponse(ModelName \o " Found", record))

\* BaseRouter.create_new_record given what model.create returned
create_new_record(record) ==
    Returned(APIBaseResponse(ModelName \o " Created Successfully", Some(record)))

\* BaseRouter.update_existing_record, second half, given what model.update
\* returned
update_existing_record(record) ==
    IF record = None
    THEN Raise(ErrorResponse("Error Occurred While Updating " \o ModelName))
    ELSE Returned(APIBaseResponse(ModelName \o " Updated Successfully", record))

\* BaseRouter.delete_existing_record, second half: the value model.delete
\* returned is not looked at.
delete_existing_record(existed) ==
    Returned(APIBaseResponse(ModelName \o " Deleted Successfully", None))

\* ---------------------------------------------------- request life cycle
Slots == 1..MaxSlots
Ids == 1..MaxId

Ops == {"get_all", "get_paginated", "get_by_id", "create", "update", "delete"}

\* The capability check each generated endpoint depends on
\* (Depends(self.read_permissions) / Depends(self.write_permissions)).
PermissionOfAllRead(op) == "read"
PermissionOf(op) ==
    IF op \in {"get_all", "get_paginated", "get_by_id"} THEN "read" ELSE "write"

\* Exceptions a BaseModel call or the code around it can raise into the
\* endpoint function.
Faults == { Obj("SQLAlchemyError", 0, "", "connection lost", ""),
            Obj("ValueError", 0, "", "invalid literal", ""),
            Obj("AttributeError", 0, "", "no such attribute", ""),
            HTTPException(409, "conflict", "") }

\* Query parameters of the paginated endpoint in the life cycle: the page
\* varies, the rest are the defaults.
PageParams ==
    {Params(pg, lim, "created_at", "asc", None, None, None, None, None, None) :
        pg \in 1..MaxPage, lim \in {PAGE_SIZE}}

AnyBody == CHOOSE b \in Bodies : TRUE

NoResult == [kind |-> "none", exc |-> None, value |-> None]
Denied == [kind |-> "denied", exc |-> None, value |-> None]

Idle == [pc |-> "idle", n |-> 0, op |-> "get_all", id |-> 0, body |-> AnyBody,
         params |-> DefaultParams, sess |-> 0, checked |-> "none", granted |-> FALSE,
         found |-> None, existed |-> None, raised |-> None, result |-> NoResult,
         calls |-> 0, page |-> <<>>, loaded |-> None]

\* No BaseModel call made yet outside a request
NoCall == [op |-> "none", id |-> 0, body |-> AnyBody, params |-> DefaultParams,
           before |-> None, at |-> 0, ret |-> NoResult]

\* DBSession(): sessionmaker(...)() builds a new session object on every call
DBSessionShared == Min(1, nextSess)
DBSession == nextSess

\* DBSession.__exit__: self.db.close()
SessionExitKeepsOpen(st) == st
SessionExit(st) == "closed"

InFlight(r) == rq[r].pc # "idle"

\* Requests are served by whichever worker is free: the lowest free slot.
Free(r) == rq[r].pc = "idle" /\ \A q \in Slots : q < r => rq[q].pc # "idle"

Init ==
    /\ store = {}
    /\ now = 0
    /\ nextId = 1
    /\ deleted = {}
    /\ rq = [r \in Slots |-> Idle]
    /\ sessions = [s \in 1..MaxRequests |-> [state |-> "new", users |-> {}]]
    /\ nextSess = 1
    /\ nextReq = 1
    /\ query = DefaultParams
    /\ out = NoResult
    /\ last = NoCall
    /\ committed = [i \in Ids |-> None]

\* func.now(): the database clock moves on
Tick ==
    /\ now < MaxClock
    /\ now' = now + 1
    /\ UNCHANGED <<store, nextId, deleted, rq, sessions, nextSess, nextReq, query, out, last, committed>>

\* A request arrives and its first dependency, get_db, is resolved:
\* `with DBSession() as db: yield db`.
Receive(r, op, id, body, p) ==
    /\ Free(r)
    /\ nextReq <= MaxRequests
    /\ LET s == DBSession IN
       /\ rq' = [rq EXCEPT ![r] = [Idle EXCEPT !.pc = "deps", !.n = nextReq, !.op = op,
                                              !.id = id, !.body = body, !.params = p,
                                              !.sess = s]]
       /\ sessions' = [sessions EXCEPT ![s] = [state |-> "open",
                                                users |-> @.users \cup {nextReq}]]
    /\ nextSess' = nextSess + 1
    /\ nextReq' = nextReq + 1
    /\ UNCHANGED <<store, now, nextId, deleted, query, out, last, committed>>

\* The second dependency: the capability check of the endpoint, which
\* grants or fails.  On failure the endpoint function is not called.
CheckPermissions(r, ok) ==
    /\ rq[r].pc = "deps"
    /\ rq' = [rq EXCEPT ![r].checked = PermissionOf(rq[r].op),
                        ![r].granted = ok,
                        ![r].pc = IF ok THEN "body" ELSE "teardown",
                        ![r].result = IF ok THEN NoResult ELSE Denied]
    /\ UNCHANGED <<store, now, nextId, deleted, sessions, nextSess, nextReq, query, out, last, committed>>

\* The endpoint function has finished with `done`; wrapper translates it.
Finish(r, done, callsMade) ==
    [rq[r] EXCEPT !.pc = "teardown", !.raised = done.exc,
                  !.result = handle_exceptions(done),
                  !.calls = @ + callsMade]

\* A BaseModel call of the endpoint function raises e
ModelRaises(r, e) ==
    /\ rq[r].pc \in {"body", "second", "third"}
    /\ rq' = [rq EXCEPT ![r] = Finish(r, Raised(e), IF rq[r].pc = "third" THEN 0 ELSE 1)]
    /\ UNCHANGED <<store, now, nextId, deleted, sessions, nextSess, nextReq, query, out, last, committed>>

\* GET /all: get_records -> get_all_records(db)
GetRecords(r) ==
    /\ rq[r].pc = "body" /\ rq[r].op = "get_all"
    /\ \E records \in get_all(store, DefaultParams) :
          rq' = [rq EXCEPT ![r] = Finish(r, get_all_records(records), 1)]
    /\ UNCHANGED <<store, now, nextId, deleted, sessions, nextSess, nextReq, query, out, last, committed>>

\* GET /paginated, first call: model.get_paginated
GetPaginatedPage(r) ==
    /\ rq[r].pc = "body" /\ rq[r].op = "get_paginated"
    /\ \E records \in get_paginated(store, rq[r].params) :
          rq' = [rq EXCEPT ![r].page = records, ![r].pc = "second", ![r].calls = @ + 1]
    /\ UNCHANGED <<store, now, nextId, deleted, sessions, nextSess, nextReq, query, out, last, committed>>

\* GET /paginated, second call: model.get_pagination_metadata, and the response
GetPaginatedMetadata(r) ==
    /\ rq[r].pc = "second" /\ rq[r].op = "get_paginated"
    /\ rq' = [rq EXCEPT ![r] =
                Finish(r, get_paginated_records(rq[r].page,
                                                get_pagination_metadata(store, rq[r].params),
                                                rq[r].params), 1)]
    /\ UNCHANGED <<store, now, nextId, deleted, sessions, nextSess, nextReq, query, out, last, committed>>

\* GET /{record_id}
GetRecordById(r) ==
    /\ rq[r].pc = "body" /\ rq[r].op = "get_by_id"
    /\ LET record == get_by_id(store, rq[r].id) IN
       rq' = [rq EXCEPT ![r] = [Finish(r, get_record_by_id(record), 1)
                                   EXCEPT !.found = Some(record # None)]]
    /\ UNCHANGED <<store, now, nextId, deleted, sessions, nextSess, nextReq, query, out, last, committed>>

\* POST /
CreateRecord(r) ==
    /\ rq[r].pc = "body" /\ rq[r].op = "create"
    /\ nextId <= MaxId
    /\ LET record == create(nextId, now, rq[r].body) IN
       /\ store' = store \cup {record}
       /\ rq' = [rq EXCEPT ![r] = Finish(r, create_new_record(record), 1)]
    /\ nextId' = nextId + 1
    /\ committed' = [committed EXCEPT ![nextId] = Some(rq[r].body)]
    /\ UNCHANGED <<now, deleted, sessions, nextSess, nextReq, query, out, last>>

\* PUT and DELETE /{record_id}, first call: the existence check by get_by_id
CheckExists(r) ==
    /\ rq[r].pc = "body" /\ rq[r].op \in {"update", "delete"}
    /\ LET existing_record == get_by_id(store, rq[r].id) IN
       rq' = [rq EXCEPT ![r] =
                IF existing_record = None
                THEN [Finish(r, Raise(NotFoundErrorResponse(
                                  "No " \o ModelName \o " Found With Given Id")), 1)
                        EXCEPT !.found = Some(FALSE)]
                ELSE [rq[r] EXCEPT !.found = Some(TRUE), !.pc = "second",
                                   !.calls = @ + 1]]
    /\ UNCHANGED <<store, now, nextId, deleted, sessions, nextSess, nextReq, query, out, last, committed>>

\* PUT /{record_id}, second call: model.update, its SELECT.  Without an
\* instance model.update returns None; with one, setattr gives the loaded
\* instance the fields of the request.
UpdateRecord(r) ==
    /\ rq[r].pc = "second" /\ rq[r].op = "update"
    /\ LET instance == get_by_id(store, rq[r].id) IN
       rq' = [rq EXCEPT ![r] =
                IF instance = None
                THEN [Finish(r, update_existing_record(None), 1)
                        EXCEPT !.existed = Some(FALSE)]
                ELSE [rq[r] EXCEPT !.existed = Some(TRUE), !.loaded = instance,
                                   !.pc = "third"]]
    /\ UNCHANGED <<store, now, nextId, deleted, sessions, nextSess, nextReq, query, out,
                   last, committed>>

\* PUT /{record_id}, second call: model.update, its db.commit() and
\* db.refresh(instance).  The UPDATE of a row that is gone matches no row and
\* the refresh finds none: both raise a SQLAlchemyError.
UpdateCommit(r) ==
    /\ rq[r].pc = "third" /\ rq[r].op = "update"
    /\ LET cur == get_by_id(store, rq[r].id) IN
       IF cur = None
       THEN /\ rq' = [rq EXCEPT ![r] =
                        Finish(r, Raised(Obj("SQLAlchemyError", 0, "",
                                             "instance row is gone", "")), 1)]
            /\ UNCHANGED <<store, committed>>
       ELSE LET record == Flush(cur[1], rq[r].loaded[1], now, rq[r].body) IN
            /\ store' = (store \ {cur[1]}) \cup {record}
            /\ committed' = [committed EXCEPT ![rq[r].id] = Some(rq[r].body)]
            /\ rq' = [rq EXCEPT ![r] = Finish(r, update_existing_record(Some(record)), 1)]
    /\ UNCHANGED <<now, nextId, deleted, sessions, nextSess, nextReq, query, out, last>>

\* DELETE /{record_id}, second call: model.delete
DeleteRecord(r) ==
    /\ rq[r].pc = "second" /\ rq[r].op = "delete"
    /\ LET done == delete(store, rq[r].id) IN
       /\ store' = done.store
       /\ deleted' = IF done.ret THEN deleted \cup {rq[r].id} ELSE deleted
       /\ rq' = [rq EXCEPT ![r] = [Finish(r, delete_existing_record(done.ret), 1)
                                      EXCEPT !.existed = Some(done.ret)]]
    /\ UNCHANGED <<now, nextId, sessions, nextSess, nextReq, query, out, last, committed>>

\* The request is over, by a response or by an exception: get_db's with
\* block is left and DBSession.__exit__ runs.  Nothing of the request remains.
Teardown(r) ==
    /\ rq[r].pc = "teardown"
    /\ rq' = [rq EXCEPT ![r] = Idle]
    /\ sessions' = [sessions EXCEPT ![rq[r].sess].state = SessionExit(@)]
    /\ UNCHANGED <<store, now, nextId, deleted, nextSess, nextReq, query, out, last, committed>>

Next ==
    \/ \E r \in Slots, op \in {"get_all"} : Receive(r, op, 0, AnyBody, DefaultParams)
    \/ \E r \in Slots, p \in PageParams : Receive(r, "get_paginated", 0, AnyBody, p)
    \/ \E r \in Slots, op \in {"get_by_id", "delete"}, id \in Ids :
          Receive(r, op, id, AnyBody, DefaultParams)
    \/ \E r \in Slots, body \in Bodies : Receive(r, "create", 0, body, DefaultParams)
    \/ \E r \in Slots, id \in Ids, body \in Bodies :
          Receive(r, "update", id, body, DefaultParams)
    \/ \E r \in Slots, ok \in BOOLEAN : CheckPermissions(r, ok)
    \/ \E r \in Slots, e \in Faults : ModelRaises(r, e)
    \/ \E r \in Slots : GetRecords(r)
    \/ \E r \in Slots : GetPaginatedPage(r)
    \/ \E r \in Slots : GetPaginatedMetadata(r)
    \/ \E r \in Slots : GetRecordById(r)
    \/ \E r \in Slots : CreateRecord(r)
    \/ \E r \in Slots : CheckExists(r)
    \/ \E r \in Slots : UpdateRecord(r)
    \/ \E r \in Slots : UpdateCommit(r)
    \/ \E r \in Slots : DeleteRecord(r)
    \/ \E r \in Slots : Teardown(r)

Spec == Init /\ [][Next]_vars

\* ------------------------------------------------------- query engine
\* Query parameters of GET /paginated: every combination of a page, a page
\* size, a sort column, a direction and each filter absent or present.
QueryParams ==
    {Params(pg, lim, sb, ord, mind, maxd, minv, maxv, sf, sr) :
        pg \in 1..MaxPage, lim \in 1..MaxLimit,
        sb \in {"created_at", "value"}, ord \in {"asc", "desc"},
        mind \in {None, Some(1)}, maxd \in {None, Some(0)},
        minv \in {None, Some(2)}, maxv \in {None, Some(2)},
        sf \in {None, Some("name")}, sr \in {None, Some(<<"e">>)}}

\* BaseModel.create on the store, outside any request
ModelCreate(body) ==
    /\ nextId <= MaxId
    /\ store' = store \cup {create(nextId, now, body)}
    /\ nextId' = nextId + 1
    /\ query' = DefaultParams
    /\ out' = NoResult
    /\ last' = NoCall
    /\ UNCHANGED <<now, deleted, rq, sessions, nextSess, nextReq, committed>>

\* BaseRouter.get_paginated_records(db, page, limit, ...) on the store; one
\* query is looked at per store.
PaginatedQuery(p) ==
    /\ out = NoResult
    /\ query' = p
    /\ \E records \in get_paginated(store, p) :
          out' = get_paginated_records(records, get_pagination_metadata(store, p), p)
    /\ UNCHANGED <<store, now, nextId, deleted, rq, sessions, nextSess, nextReq, last, committed>>

QueryNext ==
    \/ Tick
    \/ \E body \in Bodies : ModelCreate(body)
    \/ \E p \in QueryParams : PaginatedQuery(p)

SpecQuery == Init /\ [][QueryNext]_vars

\* ---------------------------------------------------------------- list-all
\* The columns of ExampleModel: getattr(cls, name) for any other name does
\* not give a column, and its use in the query raises AttributeError.
Columns == {"id", "created_at", "updated_at", "name", "value", "description"}

\* The attribute lookups of the filter chain: getattr(cls, search_field) when
\* search_field and search are both truthy, then getattr(cls, sort_by).
FieldLookupFails(p) ==
    \/ TruthyName(p.search_field) /\ TruthyStr(p.search) /\ p.search_field[1] \notin Columns
    \/ p.sort_by \notin Columns

\* Query strings a list request can carry
ListParams ==
    {Params(1, PAGE_SIZE, sb, ord, mind, None, minv, maxv, sf, sr) :
        sb \in {"created_at", "value", "bogus"}, ord \in {"asc", "desc"},
        mind \in {None, Some(1)},
        minv \in {None, Some(0), Some(0 - 1)}, maxv \in {None, Some(0), Some(2)},
        sf \in {None, Some("name"), Some("bogus")},
        sr \in {None, Some(<<"e">>), Some(<<"_">>)}}

\* The arguments the GET /all endpoint passes on from its query string:
\* get_records declares no query parameter and calls get_all_records(db),
\* so BaseModel.get_all runs with the defaults.
get_records(p) == DefaultParams

\* BaseModel.get_all(db, sort_by, order, ...) on the store; one query is
\* looked at per store.
ModelGetAll(p) ==
    /\ out = NoResult
    /\ query' = p
    /\ last' = [NoCall EXCEPT !.op = "get_all", !.params = p]
    /\ IF FieldLookupFails(p)
       THEN out' = Raised(Obj("AttributeError", 0, "", "no such attribute", ""))
       ELSE \E records \in get_all(store, p) : out' = Returned(records)
    /\ UNCHANGED <<store, now, nextId, deleted, rq, sessions, nextSess, nextReq, committed>>

\* GET /all with the query string p
GetAllEndpoint(p) ==
    /\ out = NoResult
    /\ query' = p
    /\ last' = [NoCall EXCEPT !.op = "get_records", !.params = p]
    /\ \E records \in get_all(store, get_records(p)) :
          out' = handle_exceptions(get_all_records(records))
    /\ UNCHANGED <<store, now, nextId, deleted, rq, sessions, nextSess, nextReq, committed>>

ListNext ==
    \/ Tick
    \/ \E body \in Bodies : ModelCreate(body)
    \/ \E p \in ListParams : ModelGetAll(p)
    \/ \E p \in ListParams : GetAllEndpoint(p)

SpecList == Init /\ [][ListNext]_vars

\* ---------------------------------------------------------------- store
\* The BaseModel classmethods called one after another on one session.

\* BaseModel.update(instance_id, db, **body)
ModelUpdate(id, body) ==
    /\ LET found == get_by_id(store, id)
           record == IF found = None THEN None ELSE Some(update(found[1], now, body))
       IN
       /\ store' = IF found = None THEN store
                   ELSE (store \ {found[1]}) \cup {record[1]}
       /\ last' = [NoCall EXCEPT !.op = "update", !.id = id, !.body = body,
                                 !.before = found, !.at = now, !.ret = Returned(record)]
    /\ query' = DefaultParams
    /\ out' = NoResult
    /\ UNCHANGED <<now, nextId, deleted, rq, sessions, nextSess, nextReq, committed>>

\* BaseModel.delete(instance_id, db)
ModelDelete(id) ==
    /\ LET done == delete(store, id) IN
       /\ store' = done.store
       /\ deleted' = IF done.ret THEN deleted \cup {id} ELSE deleted
       /\ last' = [NoCall EXCEPT !.op = "delete", !.id = id,
                                 !.before = get_by_id(store, id), !.at = now,
                                 !.ret = Returned(done.ret)]
    /\ query' = DefaultParams
    /\ out' = NoResult
    /\ UNCHANGED <<now, nextId, rq, sessions, nextSess, nextReq, committed>>

\* BaseModel.get_by_id(instance_id, db), after the call recorded in `last`
ModelGetById(id) ==
    /\ out = NoResult
    /\ out' = Returned([id |-> id, record |-> get_by_id(store, id)])
    /\ UNCHANGED <<store, now, nextId, deleted, rq, sessions, nextSess, nextReq,
                   query, last, committed>>

StoreNext ==
    \/ Tick
    \/ \E body \in Bodies : ModelCreate(body)
    \/ \E id \in Ids, body \in Bodies : ModelUpdate(id, body)
    \/ \E id \in Ids : ModelDelete(id)
    \/ \E id \in Ids : ModelGetById(id)

SpecStore == Init /\ [][StoreNext]_vars

\* ---------------------------------------------------------------- frame
\* Every BaseModel classmethod, the reads included, called one after another
\* on one session.
FrameParams ==
    {Params(pg, PAGE_SIZE, "created_at", ord, None, None, minv, None, None, None) :
        pg \in 1..MaxPage, ord \in {"asc", "desc"}, minv \in {None, Some(2)}}

FrameNext ==
    \/ StoreNext
    \/ \E p \in FrameParams : ModelGetAll(p)
    \/ \E p \in FrameParams : PaginatedQuery(p)

SpecFrame == Init /\ [][FrameNext]_vars

\* ---------------------------------------------------------------- claims
IsHttpError(res, st) ==
    /\ res.kind = "raise"
    /\ res.exc[1].cls = "HTTPException"
    /\ res.exc[1].status_code = st

RaisedClass(r, c) == rq[r].raised # None /\ rq[r].raised[1].cls = c

\* C1: a get-by-id, update or delete request whose existence check finds no
\* stored record for the id ends as an HTTP error with status 404.
C1_NotFoundIs404 ==
    \A r \in Slots :
        rq[r].found = Some(FALSE) => IsHttpError(rq[r].result, HTTP_404_NOT_FOUND)

\* C2: whatever is raised inside a wrapped endpoint function leaves the
\* wrapper as an HTTPException with status 404, 420, 400 or 500, or as the
\* HTTPException that was raised; no other exception class leaves it.
C2_OnlyClassifiedErrorsLeave ==
    \A r \in Slots :
        rq[r].result.kind = "raise" =>
            /\ rq[r].result.exc[1].cls = "HTTPException"
            /\ \/ rq[r].result.exc[1].status_code \in {404, 420, 400, 500}
               \/ rq[r].result.exc = rq[r].raised
            /\ (rq[r].raised[1].cls \notin {"HTTPException", "SQLAlchemyError", "ValueError"}
                    /\ rq[r].found # Some(FALSE) =>
                  IsHttpError(rq[r].result, HTTP_500_INTERNAL_SERVER_ERROR))

\* C3: a ValueError raised while a wrapped endpoint function runs leaves the
\* wrapper as an HTTP error with status 400.
C3_ValueErrorIs400 ==
    \A r \in Slots :
        RaisedClass(r, "ValueError") => IsHttpError(rq[r].result, HTTP_400_BAD_REQUEST)

\* C4: a SQLAlchemyError raised while a wrapped endpoint function runs,
\* create included, leaves the wrapper as an HTTP error with status 420,
\* never with status 500.
C4_StorageErrorIs420 ==
    \A r \in Slots :
        RaisedClass(r, "SQLAlchemyError") =>
            /\ IsHttpError(rq[r].result, 420)
            /\ ~IsHttpError(rq[r].result, 500)

C4_Witness ==
    \E r \in Slots :
        /\ rq[r].op = "create"
        /\ RaisedClass(r, "SQLAlchemyError")
        /\ IsHttpError(rq[r].result, 420)

\* C5: an HTTPException raised inside a wrapped endpoint function leaves the
\* wrapper as that same exception, status code and detail unchanged.
C5_HttpExceptionPassesThrough ==
    \A r \in Slots :
        RaisedClass(r, "HTTPException") =>
            /\ rq[r].result.kind = "raise"
            /\ rq[r].result.exc = rq[r].raised
            /\ rq[r].result.exc[1].status_code = rq[r].raised[1].status_code
            /\ rq[r].result.exc[1].detail = rq[r].raised[1].detail

C5_Witness ==
    \E r \in Slots :
        /\ RaisedClass(r, "HTTPException")
        /\ IsHttpError(rq[r].result, 409)
        /\ rq[r].result.exc[1].detail = "conflict"

\* C6: the data of a paginated response satisfies the request's filters, is
\* in the requested order, and is positions (page-1)*page_size up to
\* page*page_size of a list that list-all returns for the same request.
C6_PageIsSliceOfListAll ==
    out.kind = "return" =>
        LET data == out.value[1].data IN
        /\ \A i \in 1..Len(data) : Matches(data[i], query)
        /\ Ordered(data, query.sort_by, query.order)
        /\ \E seq \in get_all(store, query) :
              data = LimitOffset(seq, query.limit, (query.page - 1) * query.limit)

\* ceil(n / p) for p >= 1, stated without the code's formula
Ceil(n, p) == CHOOSE k \in 0..n : k * p >= n /\ (k = 0 \/ (k - 1) * p < n)

\* C7: a paginated response reports total_records = N, the number of stored
\* records matching the request, and total_pages = ceil(N / page_size); when
\* the page number is greater than total_pages the data list is empty.
C7_MetadataAndEmptyBeyondLastPage ==
    out.kind = "return" =>
        LET resp == out.value[1]
            N == Cardinality(Filtered(store, query)) IN
        /\ resp.total_records = N
        /\ resp.total_pages = Ceil(N, query.limit)
        /\ resp.page_size = query.limit
        /\ (query.page > resp.total_pages => resp.data = <<>>)

\* C8: an update or delete request returns a success response only if the
\* record existed when its own mutation ran; a mutation that finds no record
\* ends as the 404 HTTP error.
C8_SuccessOnlyIfRecordExisted ==
    \A r \in Slots :
        rq[r].op \in {"update", "delete"} /\ rq[r].existed # None =>
            /\ (rq[r].result.kind = "return" => rq[r].existed = Some(TRUE))
            /\ (rq[r].existed = Some(FALSE) =>
                    IsHttpError(rq[r].result, HTTP_404_NOT_FOUND))

\* C9: a request reaches its endpoint function, and makes BaseModel calls,
\* only after its capability check was invoked and granted, the read check
\* for list-all, list-paginated and get-by-id and the write check for create,
\* update and delete; a request whose check failed makes no BaseModel call.
C9_CheckBeforeQueryEngine ==
    \A r \in Slots :
        /\ (rq[r].calls > 0 \/ rq[r].pc \in {"body", "second"}
                \/ rq[r].result.kind \in {"return", "raise"}) =>
              /\ rq[r].granted
              /\ rq[r].checked =
                    (IF rq[r].op \in {"create", "update", "delete"} THEN "write" ELSE "read")
        /\ (rq[r].checked # "none" /\ ~rq[r].granted) =>
              /\ rq[r].calls = 0
              /\ rq[r].result = Denied
              /\ rq[r].checked =
                    (IF rq[r].op \in {"create", "update", "delete"} THEN "write" ELSE "read")

C9_Witness ==
    \E r1, r2 \in Slots :
        /\ rq[r1].op = "delete" /\ rq[r1].calls = 2 /\ rq[r1].checked = "write"
        /\ rq[r1].granted
        /\ rq[r2].op = "get_by_id" /\ rq[r2].checked = "read" /\ ~rq[r2].granted
        /\ rq[r2].calls = 0 /\ rq[r2].pc = "teardown"

\* C10: every request in flight holds an open session that no other request
\* uses or has used, and the session of every request that is over, whether
\* it returned, raised or failed its capability check, is closed.
C10_OwnSessionAlwaysClosed ==
    /\ \A s \in 1..MaxRequests : Cardinality(sessions[s].users) <= 1
    /\ \A r \in Slots :
          InFlight(r) => /\ rq[r].sess \in 1..MaxRequests
                         /\ sessions[rq[r].sess].state = "open"
                         /\ sessions[rq[r].sess].users = {rq[r].n}
    /\ \A r1, r2 \in Slots :
          InFlight(r1) /\ InFlight(r2) /\ r1 # r2 => rq[r1].sess # rq[r2].sess
    /\ \A s \in 1..MaxRequests :
          sessions[s].state = "open" => \E r \in Slots : InFlight(r) /\ rq[r].sess = s
    /\ \A n \in 1..(nextReq - 1) :
          \E s \in 1..MaxRequests : sessions[s].users = {n}

C10_Witness ==
    \E s1, s2, s3 \in 1..MaxRequests, r \in Slots :
        /\ sessions[s1].state = "closed" /\ sessions[s1].users # {}
        /\ sessions[s2].state = "closed" /\ sessions[s2].users # {} /\ s1 # s2
        /\ sessions[s3].state = "open" /\ rq[r].sess = s3
        /\ rq[r].pc = "teardown" /\ rq[r].result = Denied

\* The records of a list
Elements(seq) == {seq[i] : i \in 1..Len(seq)}

\* A list answer of BaseModel.get_all / of GET /all is in `out`
ModelListed == last.op = "get_all" /\ out.kind = "return"
EndpointListed == last.op = "get_records" /\ out.kind = "return"

\* C11: list-all with only min_value = a and/or max_value = b given returns
\* exactly the stored records whose value v satisfies a <= v and/or v <= b,
\* for every integer bound, zero and negative bounds included.
C11_ValueRangeInclusive ==
    (/\ ModelListed
     /\ query.min_date = None /\ query.max_date = None
     /\ query.search_field = None /\ query.search = None) =>
        Elements(out.value[1]) =
            {rec \in store :
                /\ (query.min_value # None => query.min_value[1] <= rec.value)
                /\ (query.max_value # None => rec.value <= query.max_value[1])}

\* C12: GET /all with the query parameters sort_by, order, min_date,
\* max_date, min_value, max_value, search_field and search returns a list
\* that list-all with these parameters returns.
C12_GetAllEndpointUsesParameters ==
    (EndpointListed /\ ~FieldLookupFails(query)) =>
        out.value[1].data \in get_all(store, query)

\* C13: a list request whose sort_by or search_field names no column of the
\* entity is rejected as invalid input, before any attribute lookup fails.
C13_FieldNamesValidated ==
    (/\ last.op = "get_all" /\ out # NoResult
     /\ \/ query.sort_by \notin Columns
        \/ query.search_field # None /\ query.search_field[1] \notin Columns) =>
        /\ out.kind = "raise"
        /\ out.exc[1].cls # "AttributeError"
        /\ IsHttpError(handle_exceptions(out), HTTP_400_BAD_REQUEST)

\* The key the claim orders by
SortKey(rec, sort_by) == IF sort_by = "value" THEN rec.value ELSE rec.created_at

\* C18: list-all returns every matching record once, in non-decreasing order
\* of the sort field when order is 'asc' (the default, on created_at) and in
\* non-increasing order when order is 'desc'.
C18_ListAllOrdered ==
    ModelListed =>
        LET data == out.value[1] IN
        /\ Elements(data) = Filtered(store, query)
        /\ Len(data) = Cardinality(Filtered(store, query))
        /\ \A i \in 1..(Len(data) - 1) :
              IF query.order = "desc"
              THEN SortKey(data[i], query.sort_by) >= SortKey(data[i + 1], query.sort_by)
              ELSE SortKey(data[i], query.sort_by) <= SortKey(data[i + 1], query.sort_by)

C18_Witness ==
    /\ ModelListed
    /\ query.order = "desc" /\ query.sort_by = "created_at"
    /\ Len(out.value[1]) = 2
    /\ out.value[1][1].created_at > out.value[1][2].created_at

\* s contains t as a substring, letter case apart, character by character
ContainsIgnoringCase(s, t) ==
    \E k \in 0..(Len(s) - Len(t)) :
        \A i \in 1..Len(t) : Lower(s[k + i]) = Lower(t[i])

\* C19: list-all with only a search on a named text field returns exactly
\* the stored records whose value in that field contains the search string
\* as a case-insensitive substring, every character matched literally.
C19_SearchIsLiteralSubstring ==
    (/\ ModelListed
     /\ query.min_date = None /\ query.max_date = None
     /\ query.min_value = None /\ query.max_value = None
     /\ query.search_field # None /\ query.search # None) =>
        Elements(out.value[1]) =
            {rec \in store :
                ContainsIgnoringCase(TextColumn(rec, query.search_field[1]),
                                     query.search[1])}

\* C17: the stored record carries, in every field, the values of the
\* request that committed last on its id (the create, or the latest update),
\* whatever the interleaving of the update requests.
C17_LastWriteWins ==
    \A rec \in store :
        committed[rec.id] # None =>
            /\ rec.name = committed[rec.id][1].name
            /\ rec.value = committed[rec.id][1].value
            /\ rec.description = committed[rec.id][1].description

\* get_by_id(id) was called after the call recorded in `last`, on its id
ReadBack == out.kind = "return" /\ out.value[1].id = last.id

\* C14: every stored record has a non-empty id, no two stored records share
\* an id, an update leaves the id of the record it updates unchanged, and no
\* stored record carries the id of a deleted record.
C14_IdsUniqueAndNeverReused ==
    /\ \A rec \in store : rec.id >= 1
    /\ \A a, b \in store : a.id = b.id => a = b
    /\ \A rec \in store : rec.id \notin deleted
    /\ (last.op = "update" /\ last.before # None) =>
          /\ last.ret.value[1] # None
          /\ last.ret.value[1][1].id = last.before[1].id
          /\ get_by_id(store, last.before[1].id) = last.ret.value[1]

C14_Witness ==
    /\ last.op = "update" /\ last.before # None
    /\ \E d \in deleted : last.id > d
    /\ Cardinality(store) >= 1

\* C15: update of an existing id, made when the clock has advanced since the
\* record was last written, followed by get_by_id: the record read back has
\* the new value in each updated field, its created_at unchanged, and an
\* updated_at later than before the update.
C15_UpdateAdvancesUpdatedAt ==
    (/\ last.op = "update" /\ last.before # None
     /\ last.at > last.before[1].updated_at
     /\ ReadBack) =>
        LET rec == out.value[1].record IN
        /\ rec # None
        /\ rec[1].name = last.body.name
        /\ rec[1].value = last.body.value
        /\ rec[1].description = last.body.description
        /\ rec[1].created_at = last.before[1].created_at
        /\ rec[1].updated_at > last.before[1].updated_at

\* C16: delete(id) returns true exactly when a record with that id existed;
\* after it returns, get_by_id(id) finds nothing, and no later create brings
\* a deleted id back.
C16_DeleteThenNotFound ==
    /\ last.op = "delete" =>
          /\ last.ret = Returned(last.before # None)
          /\ get_by_id(store, last.id) = None
          /\ (ReadBack => out.value[1].record = None)
    /\ \A id \in deleted : get_by_id(store, id) = None

C16_Witness ==
    /\ last.op = "delete" /\ last.before # None
    /\ last.ret = Returned(TRUE)
    /\ ReadBack
    /\ store # {}

\* C20: the data list of a paginated response holds at most page_size
\* records and no more records than the total_records of the same response;
\* when total_records is 0 the data list is empty.
C20_PageWithinTotals ==
    (out.kind = "return" /\ out.value[1].schema = "APIBasePaginatedResponse") =>
        LET response == out.value[1] IN
        /\ Len(response.data) <= response.page_size
        /\ Len(response.data) <= response.total_records
        /\ (response.total_records = 0 => response.data = <<>>)

\* The stored records other than the one with the given id
Others(S, id) == {rec \in S : rec.id # id}

\* C21: a create adds one record and leaves every stored record unchanged;
\* update(id) and delete(id) leave every stored record with another id
\* unchanged, and the whole store unchanged when no record has the id; the
\* reads get_all, get_paginated, get_pagination_metadata and get_by_id leave
\* the whole store unchanged.  A step that leaves `out` empty, the clock and
\* the id counter alone and has an update or delete in `last` is that call; a
\* step that fills `out` is a read.
C21_FrameEffects ==
    [][/\ nextId' # nextId =>
             /\ store \subseteq store'
             /\ \A rec \in store' \ store : rec.id = nextId
       /\ (/\ last'.op \in {"update", "delete"}
           /\ out' = NoResult /\ now' = now /\ nextId' = nextId) =>
             /\ Others(store', last'.id) = Others(store, last'.id)
             /\ ((\A rec \in store : rec.id # last'.id) => store' = store)
       /\ (out = NoResult /\ out' # NoResult) => store' = store]_vars

C21_Witness ==
    /\ last.op = "update" /\ last.before # None
    /\ Cardinality(store) = 2
    /\ \E rec \in store :
          /\ rec.id = last.id
          /\ rec.name = last.body.name /\ rec.name # last.before[1].name
    /\ \E rec \in store : rec.id # last.id /\ rec.name # last.body.name

====
